---- MODULE Spec2Model ----
(***************************************************************************)
(* Valuation and earnings engine of the trading-portfolio dashboard:       *)
(* calculate_metrics, api_current_price (batch and fallback path), the     *)
(* ranking (nlargest / nsmallest, create_unique_labels) and                *)
(* create_daily_cumulative.                                                *)
(*                                                                         *)
(* Money is fixed point, in thousandths of a currency unit ("mils"):       *)
(* 27.27 is 27270.  FX rates are in thousandths too: 1.254 is 1254.        *)
(* round(x, 2) is rounding to a multiple of 10 mils, ties to even.         *)
(* A data frame is a sequence of row records, in the order of the rows.    *)
(* Every owner is selected (the default of the owner checkboxes), so       *)
(* filtered_df has the rows of df_with_metrics.  One script run is the     *)
(* sequence calculate_metrics, api_current_price (its statements between   *)
(* the entry and the return are separate steps), ranking, aggregation.     *)
(*                                                                         *)
(* The transactions table with its four operations (new_stock_to_db,       *)
(* close_stock, add_etf, delete_stock) and the st.cache_data caches of the *)
(* five decorated functions are followed in SpecStore and SpecCache, where *)
(* a whole script run, with the form it handles, is one step of one        *)
(* session; the external services answer there.  The '2024' filter of      *)
(* load_cached_data and avg_holding_days are not modelled.                 *)
(***************************************************************************)
EXTENDS Integers, Sequences, FiniteSets, TLC

\* ------------------------------------------------------------------ bounds
MaxRows == 3
MaxRank == 5
MaxAgg == 3
MaxLabelRows == 3
MaxStats == 4
MaxStore == 3
MaxClock == 2
MaxOps == 2

\* --------------------------------------------------------- special values
\* pandas NaN of a float column (price_sell, total_sell, earning of an open row)
NaN == -99999999
\* null date_sell (date_sell.isna())
NaT == 0
\* the sentinel "OPEN" written into date_sell
OPEN == -1
\* datetime.date.today(); real dates are 1..Today
Today == 3
\* api_request_fx falls out of its except clause and returns None
None == 0
\* nlargest(3, ...) / nsmallest(3, ...)
N == 3

Owners == <<"A", "B">>
Tickers == {"X", "Y"}

\* ------------------------------------------------------------- arithmetic
Min(S) == CHOOSE m \in S : \A k \in S : m <= k

\* nearest integer to n / d (d > 0), ties to the even integer
RoundHalfEven(n, d) ==
    LET q == n \div d
        r == n % d
    IN  IF 2 * r < d THEN q
        ELSE IF 2 * r > d THEN q + 1
        ELSE IF q % 2 = 0 THEN q ELSE q + 1

\* float arithmetic of pandas: NaN propagates
Mul(a, b) == IF a = NaN \/ b = NaN THEN NaN ELSE a * b
Add(a, b) == IF a = NaN \/ b = NaN THEN NaN ELSE a + b
Sub(a, b) == IF a = NaN \/ b = NaN THEN NaN ELSE a - b

\* round(x, 2)
round2(x) == IF x = NaN THEN NaN ELSE 10 * RoundHalfEven(x, 10)

\* round(x / rate, 2), x in mils and rate in thousandths
div_round2(x, rate) == IF x = NaN THEN NaN ELSE 10 * RoundHalfEven(100 * x, rate)

\* ------------------------------------------------- external collaborators
\* the rate the exchange-rate service answers for (currency, date)
FxTable(currency, transaction_date) ==
    IF currency = "USD"
    THEN (IF transaction_date = Today THEN 1254 ELSE 1100)
    ELSE (IF transaction_date = Today THEN 4316 ELSE 4000)

\* the latest close price the market-data service answers for a ticker
Price(ticker) == IF ticker = "X" THEN 25000 ELSE 12004

\* api_request_fx: the rate, or None when the request or its parsing raised
\* (down = the currencies whose lookup fails)
api_request_fx(currency, transaction_date, down) ==
    IF currency \in down THEN None ELSE FxTable(currency, transaction_date)

\* today_rate: USD first, then PLN; round(None, 2) raises TypeError
today_rate(down) ==
    LET usd == api_request_fx("USD", Today, down)
        pln == api_request_fx("PLN", Today, down)
    IN  IF usd = None
        THEN [raised |-> TRUE, usd_rate |-> None, pln_rate |-> None,
              calls |-> {<<"USD", Today>>}]
        ELSE IF pln = None
        THEN [raised |-> TRUE, usd_rate |-> None, pln_rate |-> None,
              calls |-> {<<"USD", Today>>, <<"PLN", Today>>}]
        ELSE [raised |-> FALSE, usd_rate |-> round2(usd), pln_rate |-> round2(pln),
              calls |-> {<<"USD", Today>>, <<"PLN", Today>>}]

\* ------------------------------------------------------------------- rows
\* a row of the transactions table, with the derived columns not yet computed
Row(id, owner, stock, ticker, currency, price_buy, quantity_buy, price_sell, quantity_sell, date_sell, dividends) ==
    [id |-> id, owner |-> owner, stock |-> stock, ticker |-> ticker,
     currency |-> currency, price_buy |-> price_buy, quantity_buy |-> quantity_buy,
     price_sell |-> price_sell, quantity_sell |-> quantity_sell,
     date_sell |-> date_sell, dividends |-> dividends,
     total_buy |-> NaN, total_sell |-> NaN, earning |-> NaN]

\* the transactions the snapshots are drawn from: closed and open rows,
\* EUR / USD / PLN, one position closed today, prices with a third decimal
Catalogue ==
    << Row(1, "A", "X",   "X", "EUR",  5000, 10,  8000,  10, 1,     0),
       Row(2, "A", "Y",   "Y", "USD",  5000, 10,  8000,  10, 1,     0),
       Row(3, "B", "Y",   "Y", "USD",  5001,  3,  7000,   3, Today, 1250),
       Row(4, "A", "XYZ", "X", "EUR", 20000,  5,  NaN,  NaN, NaT,   0),
       Row(5, "B", "Y",   "Y", "USD", 10000,  3,  NaN,  NaN, NaT,   0),
       Row(6, "B", "X",   "X", "PLN",  4003,  7,  4100,   7, 1,     0) >>

RECURSIVE Pick(_, _)
\* the rows of the catalogue whose id is in ids, in id order
Pick(ids, i) ==
    IF i > Len(Catalogue) THEN <<>>
    ELSE IF i \in ids THEN <<Catalogue[i]>> \o Pick(ids, i + 1)
    ELSE Pick(ids, i + 1)

Snapshots ==
    { Pick(ids, 1) : ids \in { S \in SUBSET (1..Len(Catalogue)) :
                                 Cardinality(S) >= 1 /\ Cardinality(S) <= MaxRows } }

\* --------------------------------------------------- calculate_metrics
\* convert_open_to_eur(row, "earning", "date_sell", usd_rate, pln_rate)
convert_open_to_eur(row, usd_rate, pln_rate) ==
    IF row.currency = "USD" /\ row.date_sell # NaT
    THEN div_round2(row.earning, usd_rate)
    ELSE IF row.currency = "PLN" /\ row.date_sell # NaT
    THEN div_round2(row.earning, pln_rate)
    ELSE round2(row.earning)

\* the derived columns of one row, before the conversion to EUR
MetricsRow(row, include_dividends) ==
    LET total_buy  == Mul(row.price_buy, row.quantity_buy)
        total_sell == IF include_dividends
                      THEN Add(Mul(row.price_sell, row.quantity_sell), row.dividends)
                      ELSE Mul(row.price_sell, row.quantity_sell)
    IN  [row EXCEPT !.total_buy = total_buy, !.total_sell = total_sell,
                    !.earning = Sub(total_sell, total_buy)]

\* calculate_metrics(df, include_dividends): works on a copy of df
calculate_metrics(df, include_dividends, down) ==
    LET rates == today_rate(down)
    IN  IF rates.raised
        THEN [raised |-> TRUE, rows |-> <<>>, calls |-> rates.calls]
        ELSE [raised |-> FALSE,
              rows |-> [i \in 1..Len(df) |->
                          LET m == MetricsRow(df[i], include_dividends)
                          IN  [m EXCEPT !.earning =
                                 convert_open_to_eur(m, rates.usd_rate, rates.pln_rate)]],
              calls |-> rates.calls]

\* --------------------------------------------------- api_current_price
\* open_mask = df["date_sell"].isna(), as the set of row positions
OpenMask(df) == { i \in 1..Len(df) : df[i].date_sell = NaT }

\* open_tickers = df.loc[open_mask, "ticker"].unique()
OpenTickers(df) == { df[i].ticker : i \in OpenMask(df) }

\* the update loop without its assignment of date_sell
UpdatePriced_NoDate(df, open_mask, priced) ==
    [i \in 1..Len(df) |->
        IF i \in open_mask /\ df[i].ticker \in priced
        THEN LET total_sell == Mul(Price(df[i].ticker), df[i].quantity_buy)
             IN  [df[i] EXCEPT !.total_sell = total_sell,
                               !.earning = round2(Sub(total_sell, df[i].total_buy))]
        ELSE df[i]]

\* stock_mask rows get total_sell, earning and date_sell = today
\* (the three assignments of one loop iteration), for every priced ticker
UpdatePriced(df, open_mask, priced) ==
    [i \in 1..Len(df) |->
        IF i \in open_mask /\ df[i].ticker \in priced
        THEN LET total_sell == Mul(Price(df[i].ticker), df[i].quantity_buy)
             IN  [df[i] EXCEPT !.total_sell = total_sell,
                               !.earning = round2(Sub(total_sell, df[i].total_buy)),
                               !.date_sell = Today]
        ELSE df[i]]

\* updated_mask of the batch path: isin(ticker_prices.keys()) & open_mask
BatchUpdatedMask(df, open_mask, priced) ==
    { i \in open_mask : df[i].ticker \in priced }

\* updated_mask of the fallback path: df["date_sell"] == today
FallbackUpdatedMask(df) == { i \in 1..Len(df) : df[i].date_sell = Today }

\* convert_to_eur(row, "earning", "date_sell") asks the FX service
NeedsFx(row) == row.currency # "EUR" /\ row.date_sell # NaT

\* convert_to_eur(row, "earning", "date_sell"), when the rate is there
convert_to_eur(row, down) ==
    IF NeedsFx(row)
    THEN div_round2(row.earning, api_request_fx(row.currency, Today, down))
    ELSE round2(row.earning)

\* df.loc[updated_mask, "earning"] = df.loc[updated_mask].apply(convert_to_eur):
\* rows are visited in order; a None rate raises TypeError and nothing is assigned
ApplyConvert(df, updated_mask, down) ==
    LET failing == { i \in updated_mask :
                       NeedsFx(df[i]) /\ api_request_fx(df[i].currency, Today, down) = None }
        visited == IF failing = {} THEN updated_mask
                   ELSE { i \in updated_mask : i <= Min(failing) }
    IN  [raised |-> failing # {},
         rows |-> IF failing # {} THEN df
                  ELSE [i \in 1..Len(df) |->
                          IF i \in updated_mask
                          THEN [df[i] EXCEPT !.earning = convert_to_eur(df[i], down)]
                          ELSE df[i]],
         calls |-> { <<df[i].currency, Today>> : i \in { j \in visited : NeedsFx(df[j]) } }]

\* df.loc[updated_mask, "date_sell"] = "OPEN"
SetSentinel(df, updated_mask) ==
    [i \in 1..Len(df) |->
        IF i \in updated_mask THEN [df[i] EXCEPT !.date_sell = OPEN] ELSE df[i]]

\* ------------------------------------------------------------- the ranking
\* open_df[open_df["date_sell"] != "OPEN"]
ClosedOnly(rows) == SelectSeq(rows, LAMBDA r : r.date_sell # OPEN)

\* row j is placed before row i: by earning (largest or smallest first),
\* ties in row order (keep="first"), NaN earnings after all the others
PlacedBefore(rows, j, i, largest) ==
    IF rows[j].earning = NaN THEN rows[i].earning = NaN /\ j < i
    ELSE \/ rows[i].earning = NaN
         \/ IF largest THEN rows[j].earning > rows[i].earning
                       ELSE rows[j].earning < rows[i].earning
         \/ rows[j].earning = rows[i].earning /\ j < i

\* the rows left in frame order
SortedByEarning_Unsorted(rows, largest) == rows

\* the rows in the order nlargest / nsmallest give them
SortedByEarning(rows, largest) ==
    LET pos(i) == 1 + Cardinality({ j \in 1..Len(rows) :
                                      j # i /\ PlacedBefore(rows, j, i, largest) })
    IN  [k \in 1..Len(rows) |-> rows[CHOOSE i \in 1..Len(rows) : pos(i) = k]]

\* the first n rows of a frame
FirstN(rows, n) == SubSeq(rows, 1, IF Len(rows) < n THEN Len(rows) ELSE n)

\* [['owner', 'stock', 'earning']] plus the label column; id is the frame index
Labelled(rows) ==
    [k \in 1..Len(rows) |->
        [id |-> rows[k].id, owner |-> rows[k].owner, stock |-> rows[k].stock,
         earning |-> rows[k].earning,
         label |-> rows[k].owner \o " - " \o rows[k].stock]]

\* closed_transactions.nlargest(3, 'earning') with its label column
nlargest(n, rows) == Labelled(FirstN(SortedByEarning(rows, TRUE), n))

\* closed_transactions.nsmallest(3, 'earning') with its label column
nsmallest(n, rows) == Labelled(FirstN(SortedByEarning(rows, FALSE), n))

RECURSIVE LabelLoop(_, _, _, _)
\* the loop of create_unique_labels from row i on:
\* label_counts maps a base label to the times it was seen
LabelLoop(stocks_df, i, label_counts, unique_labels) ==
    IF i > Len(stocks_df) THEN unique_labels
    ELSE LET base_label == stocks_df[i].label
         IN  IF base_label \in DOMAIN label_counts
             THEN LET c == label_counts[base_label] + 1
                  IN  LabelLoop(stocks_df, i + 1,
                                [label_counts EXCEPT ![base_label] = c],
                                Append(unique_labels,
                                       base_label \o "(" \o ToString(c) \o ")"))
             ELSE LabelLoop(stocks_df, i + 1,
                            label_counts @@ (base_label :> 1),
                            Append(unique_labels, base_label))

\* create_unique_labels(stocks_df)
create_unique_labels(stocks_df) == LabelLoop(stocks_df, 1, <<>>, <<>>)

\* ---------------------------------------------------------- the aggregator
RECURSIVE SumEarning(_, _)
\* sum of the earning column over the rows at positions S, NaN skipped
SumEarning(rows, S) ==
    IF S = {} THEN 0
    ELSE LET i == CHOOSE k \in S : TRUE
         IN  (IF rows[i].earning = NaN THEN 0 ELSE rows[i].earning)
             + SumEarning(rows, S \ {i})

OwnerIdx(owner) == CHOOSE k \in 1..Len(Owners) : Owners[k] = owner

\* sort_values(["owner", "date_sell"]) order of two group keys
KeyBefore(a, b) ==
    \/ OwnerIdx(a[1]) < OwnerIdx(b[1])
    \/ a[1] = b[1] /\ a[2] < b[2]

\* groupby(["owner", "date_sell"])["earning"].sum(), sorted by owner and date:
\* rows with a null date_sell belong to no group
DailySums(rows) ==
    LET keys == { <<rows[i].owner, rows[i].date_sell>> :
                    i \in { j \in 1..Len(rows) : rows[j].date_sell # NaT } }
        pos(key) == 1 + Cardinality({ other \in keys : KeyBefore(other, key) })
    IN  [k \in 1..Cardinality(keys) |->
            LET key == CHOOSE x \in keys : pos(x) = k
            IN  [owner |-> key[1], date_sell |-> key[2],
                 earning |-> SumEarning(rows, { i \in 1..Len(rows) :
                                 rows[i].owner = key[1] /\ rows[i].date_sell = key[2] })]]

\* cumsum() over the whole frame instead of per owner
GroupCumsum_AllOwners(daily, i) == SumEarning(daily, 1..i)

\* daily.groupby("owner")["earning"].cumsum(): the running sum over the
\* earlier rows of the same owner
GroupCumsum(daily, i) ==
    SumEarning(daily, { j \in 1..i : daily[j].owner = daily[i].owner })

\* create_daily_cumulative(df)
create_daily_cumulative(rows) ==
    LET daily == DailySums(rows)
    IN  [i \in 1..Len(daily) |->
            [owner |-> daily[i].owner, date_sell |-> daily[i].date_sell,
             earning |-> daily[i].earning, cumulative |-> GroupCumsum(daily, i)]]

\* filtered_df_3: open_df with "OPEN" replaced by today (include_open),
\* otherwise the frame the resolver got
ChartData(filtered_df, resolved, include_open) ==
    IF include_open
    THEN [i \in 1..Len(resolved) |->
            IF resolved[i].date_sell = OPEN
            THEN [resolved[i] EXCEPT !.date_sell = Today] ELSE resolved[i]]
    ELSE filtered_df

\* ------------------------------------------------------- owner statistics
\* df["owner"].unique(), as a set
OwnersOf(rows) == { rows[i].owner : i \in 1..Len(rows) }

\* closed_df with no row of the owner left out of it and none in open_df
ClosedOf_AllRows(rows, owner) ==
    { i \in 1..Len(rows) : rows[i].owner = owner }

\* closed_df = owner_df[owner_df["date_sell"].notna()], as row positions
ClosedOf(rows, owner) ==
    { i \in 1..Len(rows) : rows[i].owner = owner /\ rows[i].date_sell # NaT }

\* open_df = owner_df[owner_df["date_sell"].isna()], as row positions
OpenOf(rows, owner) ==
    { i \in 1..Len(rows) : rows[i].owner = owner /\ rows[i].date_sell = NaT }

\* the earnings at the positions S that are set (max, min and sum skip NaN)
EarningsAt(rows, S) == { rows[i].earning : i \in { j \in S : rows[j].earning # NaN } }

\* closed_df["earning"].max() / .min(); NaN when no earning is set
Extreme(rows, S, largest) ==
    LET earnings == EarningsAt(rows, S)
    IN  IF earnings = {} THEN NaN
        ELSE CHOOSE m \in earnings :
                \A k \in earnings : IF largest THEN m >= k ELSE m <= k

\* winning_trades / total_transactions * 100, in thousandths of a percent
WinRate(winning_trades, total_transactions) ==
    IF total_transactions > 0
    THEN RoundHalfEven(winning_trades * 100000, total_transactions)
    ELSE 0

\* the stats of one owner; avg_holding_days is left out (the rows of the
\* model carry no date_buy)
OwnerStats(rows, owner) ==
    LET closed_df == ClosedOf(rows, owner)
        open_rows == OpenOf(rows, owner)
        total_transactions == Cardinality(closed_df)
        winning_trades ==
            Cardinality({ i \in closed_df : rows[i].earning # NaN /\ rows[i].earning > 0 })
    IN  [total_earnings |-> IF closed_df # {} THEN SumEarning(rows, closed_df) ELSE 0,
         total_transactions |-> total_transactions,
         open_positions |-> Cardinality(open_rows),
         win_rate |-> WinRate(winning_trades, total_transactions),
         best_trade |-> IF closed_df # {} THEN Extreme(rows, closed_df, TRUE) ELSE 0,
         worst_trade |-> IF closed_df # {} THEN Extreme(rows, closed_df, FALSE) ELSE 0]

\* calculate_owner_stats(df): one entry per owner of the frame
calculate_owner_stats(rows) == [owner \in OwnersOf(rows) |-> OwnerStats(rows, owner)]

\* ---------------------------------------------------- the transaction store
\* The table is a sequence of rows in id order (SELECT ... ORDER BY id); a
\* NULL of price_sell / quantity_sell reads as NaN, a NULL date_sell as NaT.
\* A text input left empty is "", a number input left alone is 0.

\* new_stock_to_db: the INSERT when the guard holds; it then clears the
\* caches and calls st.rerun(), which ends the script run
new_stock_to_db(rows, id, owner, stock, price_buy, quantity_buy, price_sell, date_sell, quantity_sell, currency, ticker, dividends) ==
    IF owner # "" /\ stock # "" /\ price_buy > 0
    THEN [rows |-> Append(rows, Row(id, owner, stock, ticker, currency, price_buy,
                                    quantity_buy, price_sell, quantity_sell,
                                    date_sell, dividends)),
          written |-> TRUE, cleared |-> TRUE, rerun |-> TRUE]
    ELSE [rows |-> rows, written |-> FALSE, cleared |-> FALSE, rerun |-> FALSE]

\* the WHERE clause of close_stock and add_etf
OpenPosition(row, owner, stock) ==
    row.stock = stock /\ row.owner = owner /\ row.date_sell = NaT

\* the UPDATE of close_stock without quantity_sell among its values
CloseValues_NoQuantity(row, price_sell, date_sell, quantity_sell, dividends) ==
    [row EXCEPT !.price_sell = price_sell, !.date_sell = date_sell,
                !.dividends = dividends]

\* .values(price_sell=..., quantity_sell=..., date_sell=..., dividends=...)
CloseValues(row, price_sell, date_sell, quantity_sell, dividends) ==
    [row EXCEPT !.price_sell = price_sell, !.quantity_sell = quantity_sell,
                !.date_sell = date_sell, !.dividends = dividends]

\* close_stock: one UPDATE over the open rows of (owner, stock), then the
\* caches are cleared and st.rerun() ends the script run
close_stock(rows, owner, stock, price_sell, date_sell, quantity_sell, dividends) ==
    IF owner # "" /\ stock # "" /\ price_sell > 0 /\ date_sell # NaT
    THEN [rows |-> [i \in 1..Len(rows) |->
                      IF OpenPosition(rows[i], owner, stock)
                      THEN CloseValues(rows[i], price_sell, date_sell,
                                       quantity_sell, dividends)
                      ELSE rows[i]],
          written |-> TRUE, cleared |-> TRUE, rerun |-> TRUE]
    ELSE [rows |-> rows, written |-> FALSE, cleared |-> FALSE, rerun |-> FALSE]

\* delete_stock: DELETE FROM transactions WHERE id = :id
delete_stock(rows, record_id) ==
    [rows |-> SelectSeq(rows, LAMBDA r : r.id # record_id),
     written |-> TRUE, cleared |-> FALSE, rerun |-> FALSE]

\* avg of add_etf: the quotient as the price_buy column stores it, to the
\* thousandth; the operands are the values of the row before the UPDATE
Avg(row, new_price, new_qty) ==
    RoundHalfEven(row.price_buy * row.quantity_buy + new_price * new_qty,
                  row.quantity_buy + new_qty)

\* the UPDATE of add_etf with quantity_buy assigned before avg is computed
AddValues_Sequential(row, new_price, new_qty) ==
    LET grown == [row EXCEPT !.quantity_buy = row.quantity_buy + new_qty]
    IN  [grown EXCEPT !.price_buy = Avg(grown, new_price, new_qty)]

\* .values(price_buy=avg, quantity_buy=quantity_buy + new_qty)
AddValues(row, new_price, new_qty) ==
    [row EXCEPT !.price_buy = Avg(row, new_price, new_qty),
                !.quantity_buy = row.quantity_buy + new_qty]

\* add_etf: one UPDATE over the open rows of (owner, stock)
add_etf(rows, selected_owner, selected_stock, new_price, new_qty) ==
    IF selected_owner # "" /\ selected_stock # "" /\ new_price > 0 /\ new_qty > 0
    THEN [rows |-> [i \in 1..Len(rows) |->
                      IF OpenPosition(rows[i], selected_owner, selected_stock)
                      THEN AddValues(rows[i], new_price, new_qty)
                      ELSE rows[i]],
          written |-> TRUE, cleared |-> FALSE, rerun |-> FALSE]
    ELSE [rows |-> rows, written |-> FALSE, cleared |-> FALSE, rerun |-> FALSE]

\* ------------------------------------------------------- st.cache_data
\* The clock counts periods of 300 seconds.  A cache is a set of entries
\* [key, value, at]: the hashed arguments of the call, the value the function
\* returned and the time it was stored.

\* @st.cache_data(ttl=300) of load_data
ttl_load_data == 1
\* @st.cache_data(ttl=600) of load_cached_data
ttl_load_cached_data == 2
\* @st.cache_data(ttl=600) of get_current_prices
ttl_get_current_prices == 2
\* @st.cache_data without ttl (calculate_metrics, calculate_owner_stats)
NoTtl == 0

\* the caches of the five decorated functions, empty
NoCache ==
    [load_data |-> {}, load_cached_data |-> {}, calculate_metrics |-> {},
     calculate_owner_stats |-> {}, get_current_prices |-> {}]

\* clear_cache() left without effect
clear_cache_Kept(c) == c

\* clear_cache(): st.cache_data.clear() empties the cache of every function
clear_cache(c) == NoCache

\* the entries of a cache that answer a call with this key now
Hits(entries, key, ttl, now) ==
    { e \in entries : e.key = key /\ (ttl = NoTtl \/ now - e.at < ttl) }

\* a call of a decorated function: the stored entry when there is one and it
\* has not expired, otherwise the function runs and its value is stored
Cached(entries, key, ttl, now, computed) ==
    LET hits == Hits(entries, key, ttl, now)
    IN  IF hits # {}
        THEN LET e == CHOOSE h \in hits : TRUE
             IN  [entries |-> entries, value |-> e.value, at |-> e.at]
        ELSE [entries |-> { e \in entries : e.key # key }
                            \cup { [key |-> key, value |-> computed, at |-> now] },
              value |-> computed, at |-> now]

\* --------------------------------------------- divisions by an FX rate
\* convert_open_to_eur divides the earning of this row by usd_rate or pln_rate
DividesOpen(row) == row.currency \in {"USD", "PLN"} /\ row.date_sell # NaT

\* the counts after calculate_metrics has written the earning column
DivisionsOfMetrics(rows) ==
    [i \in 1..Len(rows) |-> IF DividesOpen(rows[i]) THEN 1 ELSE 0]

\* the update loop writes a fresh earning, in the row's currency
DivisionsRepriced(divisions, rows, mask, priced) ==
    [i \in 1..Len(rows) |->
        IF i \in mask /\ rows[i].ticker \in priced THEN 0 ELSE divisions[i]]

\* the assignment of the converted earnings: convert_to_eur has divided the
\* earning of every row of updated_mask that needs a rate
DivisionsConverted(divisions, rows, updated_mask, raised) ==
    IF raised THEN divisions
    ELSE [i \in 1..Len(rows) |->
            IF i \in updated_mask /\ NeedsFx(rows[i])
            THEN divisions[i] + 1 ELSE divisions[i]]

\* ------------------------------------------------------------------ state
VARIABLES
    df,                  \* the loaded transactions (load_cached_data)
    env,                 \* the settings and what the external services answer
    pc,                  \* position of the script run
    df_with_metrics,     \* result of calculate_metrics
    open_df,             \* the frame api_current_price works on and returns
    open_mask,           \* open_mask of api_current_price
    path,                \* "none", "batch" or "fallback"
    fx_calls,            \* the (currency, date) requests sent to the FX service
    closed_transactions,
    top_3,
    worst_3,
    top_labels,          \* create_unique_labels(top_3)
    worst_labels,        \* create_unique_labels(worst_3)
    chart_data,
    daily,               \* create_daily_cumulative(chart_data)
    prev,                \* outcome of the previous run on this snapshot
    owner_stats,         \* result of calculate_owner_stats
    fx_divisions,        \* per row, the divisions by an FX rate its earning went through
    store,               \* the rows of the transactions table
    next_id,             \* the id the table gives to the next inserted row
    clock,               \* the time, in periods of 300 seconds
    cache,               \* the entries of st.cache_data, per decorated function
    served,              \* per result of the last script run, the time it was computed
    last_op              \* what the last script run did after its valuation

vars == << df, env, pc, df_with_metrics, open_df, open_mask, path, fx_calls,
           closed_transactions, top_3, worst_3, top_labels, worst_labels,
           chart_data, daily, prev, owner_stats, fx_divisions,
           store, next_id, clock, cache, served, last_op >>

StoreVars == << store, next_id, clock, cache, served, last_op >>

\* no script run yet; otherwise the time of the last run and the times its
\* results were computed
NoServed ==
    [now |-> 0, df |-> 0, df_with_metrics |-> 0, owner_stats |-> 0, open_df |-> 0]

\* no form has been submitted
NoOp == [name |-> "none", owner |-> "", stock |-> "", price |-> 0, quantity |-> 0,
         record_id |-> 0, written |-> FALSE, after |-> "none", submitted |-> 0]

\* the store and the caches of a script run that is followed step by step
StoreIdle ==
    /\ store = <<>>
    /\ next_id = 0
    /\ clock = 0
    /\ cache = NoCache
    /\ served = NoServed
    /\ last_op = NoOp

\* include_dividends checkbox; whether yf.download raises; the tickers the
\* batch download / the per-ticker history has a price for; the currencies
\* whose FX lookup fails during calculate_metrics, the batch conversion and
\* the fallback conversion
Envs ==
    [include_dividends : BOOLEAN,
     batch_raises : BOOLEAN,
     batch_ok : SUBSET Tickers,
     fb_ok : SUBSET Tickers,
     fx_metrics : {{}, {"USD"}, {"PLN"}},
     fx_batch : {{}, {"USD"}},
     fx_fallback : {{}, {"USD"}}]

NoEnv ==
    [include_dividends |-> TRUE, batch_raises |-> FALSE, batch_ok |-> Tickers,
     fb_ok |-> Tickers, fx_metrics |-> {}, fx_batch |-> {}, fx_fallback |-> {}]

\* calculate_metrics without df.copy(): the new columns land in the caller's frame
MetricsInput_Aliased(frame, written) == written

\* df = df.copy() in calculate_metrics: the caller's frame is not the one
\* that gets the new columns
MetricsInput(frame, written) == frame

\* api_current_price(df_filtered.copy()): filtered_df is not the frame the
\* resolver writes to
ResolverInput(frame, written) == frame

Init ==
    /\ df \in Snapshots
    /\ env \in Envs
    /\ pc = "start"
    /\ df_with_metrics = <<>>
    /\ open_df = <<>>
    /\ open_mask = {}
    /\ path = "none"
    /\ fx_calls = {}
    /\ closed_transactions = <<>>
    /\ top_3 = <<>>
    /\ worst_3 = <<>>
    /\ top_labels = <<>>
    /\ worst_labels = <<>>
    /\ chart_data = <<>>
    /\ daily = <<>>
    /\ prev = [status |-> "none", rows |-> <<>>, input |-> df]
    /\ owner_stats = <<>>
    /\ fx_divisions = <<>>
    /\ StoreIdle

RankVars == << closed_transactions, top_3, worst_3, top_labels, worst_labels >>
ChartVars == << chart_data, daily >>

\* df_with_metrics = calculate_metrics(df, include_dividends)
CalculateMetrics ==
    /\ pc = "start"
    /\ LET r == calculate_metrics(df, env.include_dividends, env.fx_metrics)
       IN  /\ fx_calls' = fx_calls \cup r.calls
           /\ IF r.raised
              THEN /\ pc' = "aborted"
                   /\ UNCHANGED << df, df_with_metrics, fx_divisions >>
              ELSE /\ pc' = "metrics"
                   /\ df_with_metrics' = r.rows
                   /\ df' = MetricsInput(df, r.rows)
                   /\ fx_divisions' = DivisionsOfMetrics(r.rows)
    /\ UNCHANGED << env, open_df, open_mask, path, RankVars, ChartVars, prev,
                    owner_stats, StoreVars >>

\* owner_stats = calculate_owner_stats(df_with_metrics)
CalculateOwnerStats ==
    /\ pc = "metrics"
    /\ owner_stats' = calculate_owner_stats(df_with_metrics)
    /\ pc' = "stats"
    /\ UNCHANGED << df, env, df_with_metrics, open_df, open_mask, path, fx_calls,
                    RankVars, ChartVars, prev, fx_divisions, StoreVars >>

\* api_current_price: no open ticker, the frame is returned as it is
ResolveNothingOpen ==
    /\ pc = "stats"
    /\ OpenTickers(df_with_metrics) = {}
    /\ open_df' = df_with_metrics
    /\ open_mask' = {}
    /\ pc' = "resolved"
    /\ UNCHANGED << df, env, df_with_metrics, path, fx_calls, RankVars, ChartVars, prev,
                    owner_stats, fx_divisions, StoreVars >>

\* api_current_price: yf.download raises, the except clause is entered
BatchFetchRaises ==
    /\ pc = "stats"
    /\ OpenTickers(df_with_metrics) # {}
    /\ env.batch_raises
    /\ open_df' = df_with_metrics
    /\ open_mask' = OpenMask(df_with_metrics)
    /\ path' = "fallback"
    /\ pc' = "fallback"
    /\ UNCHANGED << df, env, df_with_metrics, fx_calls, RankVars, ChartVars, prev,
                    owner_stats, fx_divisions, StoreVars >>

\* api_current_price: the batch download and the update loop over ticker_prices
BatchPrice ==
    /\ pc = "stats"
    /\ OpenTickers(df_with_metrics) # {}
    /\ ~env.batch_raises
    /\ LET mask == OpenMask(df_with_metrics)
           ticker_prices == OpenTickers(df_with_metrics) \cap env.batch_ok
       IN  /\ open_mask' = mask
           /\ open_df' = UpdatePriced(df_with_metrics, mask, ticker_prices)
           /\ df_with_metrics' = ResolverInput(df_with_metrics, open_df')
           /\ fx_divisions' = DivisionsRepriced(fx_divisions, df_with_metrics, mask,
                                                ticker_prices)
    /\ path' = "batch"
    /\ pc' = "batch_priced"
    /\ UNCHANGED << df, env, fx_calls, RankVars, ChartVars, prev, owner_stats, StoreVars >>

\* batch path: the earnings of the updated rows are converted to EUR;
\* a TypeError of the conversion enters the except clause
BatchConvert ==
    /\ pc = "batch_priced"
    /\ LET updated_mask == BatchUpdatedMask(open_df, open_mask, env.batch_ok)
           r == ApplyConvert(open_df, updated_mask, env.fx_batch)
       IN  /\ fx_calls' = fx_calls \cup r.calls
           /\ open_df' = r.rows
           /\ df_with_metrics' = ResolverInput(df_with_metrics, open_df')
           /\ fx_divisions' = DivisionsConverted(fx_divisions, open_df, updated_mask,
                                                 r.raised)
           /\ IF r.raised
              THEN pc' = "fallback" /\ path' = "fallback"
              ELSE pc' = "batch_converted" /\ path' = path
    /\ UNCHANGED << df, env, open_mask, RankVars, ChartVars, prev, owner_stats, StoreVars >>

\* batch path: date_sell of the updated rows becomes "OPEN"; return df
BatchSentinel ==
    /\ pc = "batch_converted"
    /\ open_df' = SetSentinel(open_df, BatchUpdatedMask(open_df, open_mask, env.batch_ok))
    /\ df_with_metrics' = ResolverInput(df_with_metrics, open_df')
    /\ pc' = "resolved"
    /\ UNCHANGED << df, env, open_mask, path, fx_calls, RankVars, ChartVars, prev,
                    owner_stats, fx_divisions, StoreVars >>

\* fallback path: the per-ticker loop; a ticker whose history raises is passed
FallbackPrice ==
    /\ pc = "fallback"
    /\ LET open_tickers == { open_df[i].ticker : i \in open_mask }
       IN  /\ open_df' = UpdatePriced(open_df, open_mask, open_tickers \cap env.fb_ok)
           /\ fx_divisions' = DivisionsRepriced(fx_divisions, open_df, open_mask,
                                                open_tickers \cap env.fb_ok)
    /\ df_with_metrics' = ResolverInput(df_with_metrics, open_df')
    /\ pc' = "fb_priced"
    /\ UNCHANGED << df, env, open_mask, path, fx_calls, RankVars, ChartVars, prev,
                    owner_stats, StoreVars >>

\* fallback path: conversion of the rows with date_sell == today; a TypeError
\* here leaves api_current_price
FallbackConvert ==
    /\ pc = "fb_priced"
    /\ LET r == ApplyConvert(open_df, FallbackUpdatedMask(open_df), env.fx_fallback)
       IN  /\ fx_calls' = fx_calls \cup r.calls
           /\ open_df' = r.rows
           /\ df_with_metrics' = ResolverInput(df_with_metrics, open_df')
           /\ fx_divisions' = DivisionsConverted(fx_divisions, open_df,
                                                 FallbackUpdatedMask(open_df), r.raised)
           /\ pc' = IF r.raised THEN "aborted" ELSE "fb_converted"
    /\ UNCHANGED << df, env, open_mask, path, RankVars, ChartVars, prev, owner_stats,
                    StoreVars >>

\* fallback path: date_sell of the rows with date_sell == today becomes "OPEN"
FallbackSentinel ==
    /\ pc = "fb_converted"
    /\ open_df' = SetSentinel(open_df, FallbackUpdatedMask(open_df))
    /\ df_with_metrics' = ResolverInput(df_with_metrics, open_df')
    /\ pc' = "resolved"
    /\ UNCHANGED << df, env, open_mask, path, fx_calls, RankVars, ChartVars, prev,
                    owner_stats, fx_divisions, StoreVars >>

\* closed_transactions, top_3, worst_3 and the labels of the two bar charts
Rank ==
    /\ pc = "resolved"
    /\ closed_transactions' = ClosedOnly(open_df)
    /\ top_3' = nlargest(N, closed_transactions')
    /\ worst_3' = nsmallest(N, closed_transactions')
    /\ top_labels' = create_unique_labels(top_3')
    /\ worst_labels' = create_unique_labels(worst_3')
    /\ pc' = "ranked"
    /\ UNCHANGED << df, env, df_with_metrics, open_df, open_mask, path, fx_calls,
                    ChartVars, prev, owner_stats, fx_divisions, StoreVars >>

\* chart_data and daily = create_daily_cumulative(chart_data)
Aggregate ==
    /\ pc = "ranked"
    /\ \E include_open \in BOOLEAN :
          chart_data' = ChartData(df_with_metrics, open_df, include_open)
    /\ daily' = create_daily_cumulative(chart_data')
    /\ pc' = "done"
    /\ UNCHANGED << df, env, df_with_metrics, open_df, open_mask, path, fx_calls,
                    RankVars, prev, owner_stats, fx_divisions, StoreVars >>

\* the script runs again on the same snapshot, settings and service answers
Rerun ==
    /\ pc \in {"done", "aborted"}
    /\ prev' = [status |-> IF pc = "done" THEN "returned" ELSE "aborted",
                rows |-> IF pc = "done" THEN open_df ELSE <<>>,
                input |-> prev.input]
    /\ pc' = "start"
    /\ df_with_metrics' = <<>>
    /\ open_df' = <<>>
    /\ open_mask' = {}
    /\ path' = "none"
    /\ fx_calls' = {}
    /\ closed_transactions' = <<>>
    /\ top_3' = <<>>
    /\ worst_3' = <<>>
    /\ top_labels' = <<>>
    /\ worst_labels' = <<>>
    /\ chart_data' = <<>>
    /\ daily' = <<>>
    /\ owner_stats' = <<>>
    /\ fx_divisions' = <<>>
    /\ UNCHANGED << df, env, StoreVars >>

Next ==
    \/ CalculateMetrics
    \/ CalculateOwnerStats
    \/ ResolveNothingOpen
    \/ BatchFetchRaises
    \/ BatchPrice
    \/ BatchConvert
    \/ BatchSentinel
    \/ FallbackPrice
    \/ FallbackConvert
    \/ FallbackSentinel
    \/ Rank
    \/ Aggregate
    \/ Rerun

Spec == Init /\ [][Next]_vars

\* ------------------------------------------- the valuation as one function
\* api_current_price(df) from entry to return, as the steps above compose
api_current_price(frame, e) ==
    LET mask == OpenMask(frame)
        open_tickers == OpenTickers(frame)
        priced == UpdatePriced(frame, mask, open_tickers \cap e.batch_ok)
        converted == ApplyConvert(priced, BatchUpdatedMask(priced, mask, e.batch_ok),
                                  e.fx_batch)
        fb_priced == UpdatePriced(IF e.batch_raises THEN frame ELSE priced,
                                  mask, open_tickers \cap e.fb_ok)
        fb_converted == ApplyConvert(fb_priced, FallbackUpdatedMask(fb_priced),
                                     e.fx_fallback)
    IN  IF open_tickers = {} THEN [raised |-> FALSE, rows |-> frame]
        ELSE IF ~e.batch_raises /\ ~converted.raised
        THEN [raised |-> FALSE,
              rows |-> SetSentinel(converted.rows,
                                   BatchUpdatedMask(priced, mask, e.batch_ok))]
        ELSE IF fb_converted.raised THEN [raised |-> TRUE, rows |-> <<>>]
        ELSE [raised |-> FALSE,
              rows |-> SetSentinel(fb_converted.rows, FallbackUpdatedMask(fb_priced))]

\* calculate_metrics followed by get_current_prices
valuePortfolio(frame, e) ==
    LET m == calculate_metrics(frame, e.include_dividends, e.fx_metrics)
    IN  IF m.raised THEN [raised |-> TRUE, rows |-> <<>>]
        ELSE api_current_price(m.rows, e)

\* the same settings with every external lookup answering
FailureFree(e) ==
    [e EXCEPT !.batch_raises = FALSE, !.batch_ok = Tickers, !.fb_ok = Tickers,
              !.fx_metrics = {}, !.fx_batch = {}, !.fx_fallback = {}]

\* the script from load_cached_data() to get_current_prices(filtered_df):
\* the caches after the run, the results and the time each was computed.
\* load_data is called only when load_cached_data runs; with no owner the
\* script stops at st.columns(len(owners)).  The external services answer.
ScriptRun(rows, c, now, include_dividends) ==
    LET outer == Hits(c.load_cached_data, <<>>, ttl_load_cached_data, now)
        inner == IF outer # {} THEN [entries |-> c.load_data]
                 ELSE Cached(c.load_data, <<>>, ttl_load_data, now, rows)
        loaded == Cached(c.load_cached_data, <<>>, ttl_load_cached_data, now,
                         inner.value)
        metrics == Cached(c.calculate_metrics, <<loaded.value, include_dividends>>,
                          NoTtl, now,
                          calculate_metrics(loaded.value, include_dividends, {}).rows)
        stats == Cached(c.calculate_owner_stats, metrics.value, NoTtl, now,
                        calculate_owner_stats(metrics.value))
        prices == Cached(c.get_current_prices, metrics.value,
                         ttl_get_current_prices, now,
                         api_current_price(metrics.value, NoEnv).rows)
    IN  IF loaded.value = <<>>
        THEN [stopped |-> TRUE,
              cache |-> [c EXCEPT !.load_data = inner.entries,
                                  !.load_cached_data = loaded.entries],
              df |-> loaded.value, df_with_metrics |-> <<>>, owner_stats |-> <<>>,
              open_df |-> <<>>,
              served |-> [now |-> now, df |-> loaded.at, df_with_metrics |-> now,
                          owner_stats |-> now, open_df |-> now]]
        ELSE [stopped |-> FALSE,
              cache |-> [load_data |-> inner.entries,
                         load_cached_data |-> loaded.entries,
                         calculate_metrics |-> metrics.entries,
                         calculate_owner_stats |-> stats.entries,
                         get_current_prices |-> prices.entries],
              df |-> loaded.value, df_with_metrics |-> metrics.value,
              owner_stats |-> stats.value, open_df |-> prices.value,
              served |-> [now |-> now, df |-> loaded.at,
                          df_with_metrics |-> metrics.at,
                          owner_stats |-> stats.at, open_df |-> prices.at]]

\* ------------------------------------- script runs over the store and caches
\* the transactions table at the start: open positions of two owners, a
\* closed and an open position of one owner, two open rows of one position
InitStores ==
    { Pick({4, 5}, 1), Pick({3, 5}, 1),
      << Catalogue[4], Catalogue[5], [Catalogue[5] EXCEPT !.id = 6, !.quantity_buy = 4] >> }

InitStore ==
    /\ store \in InitStores
    /\ next_id = Len(Catalogue) + 1
    /\ clock = 0
    /\ cache = NoCache
    /\ served = NoServed
    /\ last_op = NoOp
    /\ df = <<>>
    /\ env = NoEnv
    /\ pc = "start"
    /\ df_with_metrics = <<>>
    /\ open_df = <<>>
    /\ owner_stats = <<>>
    /\ open_mask = {}
    /\ path = "none"
    /\ fx_calls = {}
    /\ fx_divisions = <<>>
    /\ closed_transactions = <<>>
    /\ top_3 = <<>>
    /\ worst_3 = <<>>
    /\ top_labels = <<>>
    /\ worst_labels = <<>>
    /\ chart_data = <<>>
    /\ daily = <<>>
    /\ prev = [status |-> "none", rows |-> <<>>, input |-> <<>>]

\* the statements of a script run are followed in Spec; here a run is one step
StepVars == << open_mask, path, fx_calls, fx_divisions, prev >>

\* what a script run r shows: the loaded and valued frames, the owner stats,
\* the ranking and the chart ("Include open positions" stays unchecked)
Shown(r, include_dividends) ==
    /\ df' = r.df
    /\ df_with_metrics' = r.df_with_metrics
    /\ owner_stats' = r.owner_stats
    /\ open_df' = r.open_df
    /\ served' = r.served
    /\ env' = [env EXCEPT !.include_dividends = include_dividends]
    /\ pc' = IF r.stopped THEN "aborted" ELSE "done"
    /\ closed_transactions' = ClosedOnly(r.open_df)
    /\ top_3' = nlargest(N, closed_transactions')
    /\ worst_3' = nsmallest(N, closed_transactions')
    /\ top_labels' = create_unique_labels(top_3')
    /\ worst_labels' = create_unique_labels(worst_3')
    /\ chart_data' = ChartData(r.df_with_metrics, r.open_df, FALSE)
    /\ daily' = create_daily_cumulative(chart_data')

\* the record of what a script run did: the form it handled, the values
\* submitted, whether the table was written, what the run before did and the
\* forms submitted so far
Op(name, owner, stock, price, quantity, record_id, written) ==
    [name |-> name, owner |-> owner, stock |-> stock, price |-> price,
     quantity |-> quantity, record_id |-> record_id, written |-> written,
     after |-> last_op.name,
     submitted |-> IF name \in {"run", "refresh"} THEN last_op.submitted
                   ELSE last_op.submitted + 1]

\* what the text and number inputs of the forms are filled with
StockInputs == {"", "Y"}
BuyPrices == {0, 10000}
SellPrices == {0, 12000}
\* the sale price of form_a: None unless "Has this stock been sold?" is checked
SoldInputs == {NaN} \cup SellPrices
SellQuantities == {0, 3}
AddPrices == {0, 4000}
AddQuantities == {0, 5}

\* the stocks form_b offers: the open positions of the owner in the loaded frame
OpenStocks(rows, owner) ==
    { rows[i].stock : i \in { j \in 1..Len(rows) :
                                 rows[j].owner = owner /\ rows[j].date_sell = NaT } }

\* the caches after a form handler: db_operations clears them before its
\* st.rerun(); when it returns, the handler calls clear_cache()
AfterHandler(c, w) ==
    LET inner == IF w.cleared THEN clear_cache(c) ELSE c
    IN  IF w.rerun THEN inner ELSE clear_cache(inner)

\* 300 seconds pass
Tick ==
    /\ clock < MaxClock
    /\ clock' = clock + 1
    /\ UNCHANGED << df, env, pc, df_with_metrics, open_df, owner_stats, RankVars,
                    ChartVars, StepVars, store, next_id, cache, served, last_op >>

\* a script run without a form submitted (page load, checkbox, st.rerun())
Run ==
    /\ \E include_dividends \in BOOLEAN :
          LET r == ScriptRun(store, cache, clock, include_dividends)
          IN  /\ Shown(r, include_dividends)
              /\ cache' = r.cache
    /\ last_op' = Op("run", "", "", 0, 0, 0, FALSE)
    /\ UNCHANGED << StepVars, store, next_id, clock >>

\* the "Refresh Data" button: clear_cache() and st.rerun() before anything is loaded
Refresh ==
    /\ cache' = clear_cache(cache)
    /\ last_op' = Op("refresh", "", "", 0, 0, 0, FALSE)
    /\ UNCHANGED << df, env, pc, df_with_metrics, open_df, owner_stats, RankVars,
                    ChartVars, StepVars, store, next_id, clock, served >>

\* form_a submitted: the sell fields are None unless the stock is marked as
\* sold; new_stock_to_db, then clear_cache() when it returns
SubmitNew ==
    /\ last_op.submitted < MaxOps
    /\ Len(store) < MaxStore
    /\ LET r == ScriptRun(store, cache, clock, env.include_dividends)
       IN  /\ ~r.stopped
           /\ Shown(r, env.include_dividends)
           /\ \E owner \in OwnersOf(r.df), stock \in StockInputs,
                 price_buy \in BuyPrices, price_sell \in SoldInputs :
                 LET sold == price_sell # NaN
                     w == new_stock_to_db(store, next_id, owner, stock, price_buy, 3,
                                          price_sell,
                                          IF sold THEN Today ELSE NaT,
                                          IF sold THEN 3 ELSE NaN,
                                          "USD", "Y", 0)
                 IN  /\ store' = w.rows
                     /\ next_id' = IF w.written THEN next_id + 1 ELSE next_id
                     /\ cache' = AfterHandler(r.cache, w)
                     /\ last_op' = Op("new", owner, stock, price_buy, 3, 0, w.written)
    /\ UNCHANGED << StepVars, clock >>

\* form_b submitted with "Close transaction": close_stock, then clear_cache()
\* when it returns
SubmitClose ==
    /\ last_op.submitted < MaxOps
    /\ LET r == ScriptRun(store, cache, clock, env.include_dividends)
       IN  /\ ~r.stopped
           /\ Shown(r, env.include_dividends)
           /\ \E selected_owner \in OwnersOf(r.df) :
              \E selected_stock \in OpenStocks(r.df, selected_owner),
                 price_sell \in SellPrices, quantity_sell \in SellQuantities :
                 LET w == close_stock(store, selected_owner, selected_stock,
                                      price_sell, Today, quantity_sell, 1250)
                 IN  /\ store' = w.rows
                     /\ cache' = AfterHandler(r.cache, w)
                     /\ last_op' = Op("close", selected_owner, selected_stock,
                                      price_sell, quantity_sell, 0, w.written)
    /\ UNCHANGED << StepVars, clock, next_id >>

\* form_b submitted with "Additional Purchase": add_etf, then clear_cache()
SubmitAdd ==
    /\ last_op.submitted < MaxOps
    /\ LET r == ScriptRun(store, cache, clock, env.include_dividends)
       IN  /\ ~r.stopped
           /\ Shown(r, env.include_dividends)
           /\ \E selected_owner \in OwnersOf(r.df) :
              \E selected_stock \in OpenStocks(r.df, selected_owner),
                 new_price \in AddPrices, new_qty \in AddQuantities :
                 LET w == add_etf(store, selected_owner, selected_stock,
                                  new_price, new_qty)
                 IN  /\ store' = w.rows
                     /\ cache' = AfterHandler(r.cache, w)
                     /\ last_op' = Op("add", selected_owner, selected_stock,
                                      new_price, new_qty, 0, w.written)
    /\ UNCHANGED << StepVars, clock, next_id >>

\* form_c submitted: delete_stock, then clear_cache()
SubmitDelete ==
    /\ last_op.submitted < MaxOps
    /\ LET r == ScriptRun(store, cache, clock, env.include_dividends)
       IN  /\ ~r.stopped
           /\ Shown(r, env.include_dividends)
           /\ \E delete_id \in {0} \cup { store[i].id : i \in 1..Len(store) } :
                 LET w == delete_stock(store, delete_id)
                 IN  /\ store' = w.rows
                     /\ cache' = AfterHandler(r.cache, w)
                     /\ last_op' = Op("delete", "", "", 0, 0, delete_id, w.written)
    /\ UNCHANGED << StepVars, clock, next_id >>

\* script runs with forms submitted, at one point in time
NextStore ==
    \/ Run
    \/ Refresh
    \/ SubmitNew
    \/ SubmitClose
    \/ SubmitAdd
    \/ SubmitDelete

SpecStore == InitStore /\ [][NextStore]_vars

\* script runs on an unchanged table while time passes
NextCache ==
    \/ Tick
    \/ Run
    \/ Refresh

SpecCache == InitStore /\ [][NextCache]_vars

\* ------------------------------------------------------------------ claims
Returned == pc \in {"resolved", "ranked", "done"}

\* C1: api_current_price never changes total_sell, earning or date_sell of a
\* row whose date_sell was non-null on entry, on the batch path and on the
\* fallback path, a row closed today included.
C1_ClosedRowsUntouched ==
    \A i \in 1..Len(open_df) :
        df_with_metrics[i].date_sell # NaT
        => /\ open_df[i].total_sell = df_with_metrics[i].total_sell
           /\ open_df[i].earning = df_with_metrics[i].earning
           /\ open_df[i].date_sell = df_with_metrics[i].date_sell

\* C2: the valued earning of a closed non-EUR transaction is
\* round((total_sell - total_buy) / rate(currency, date_sell), 2): the rate
\* is the one of the day the position was closed.
C2_RateOfSellDate ==
    \A i \in 1..Len(df_with_metrics) :
        (df[i].date_sell # NaT /\ df[i].currency # "EUR")
        => df_with_metrics[i].earning =
             div_round2(df_with_metrics[i].total_sell - df_with_metrics[i].total_buy,
                        FxTable(df[i].currency, df[i].date_sell))

AllClosedEur == \A i \in 1..Len(df) : df[i].date_sell # NaT /\ df[i].currency = "EUR"

\* C3: a valuation run whose transactions are all closed EUR transactions
\* values each earning as total_sell - total_buy exactly and sends no request
\* to the FX service.
C3_EurNoFxCall ==
    AllClosedEur
    => /\ fx_calls = {}
       /\ pc # "aborted"
       /\ \A i \in 1..Len(df_with_metrics) :
            df_with_metrics[i].earning =
              df_with_metrics[i].total_sell - df_with_metrics[i].total_buy

\* exactly the price lookup of ticker t fails (in the batch download)
OnlyPriceFails(t) ==
    /\ ~env.batch_raises
    /\ env.batch_ok = Tickers \ {t}
    /\ env.fx_metrics = {} /\ env.fx_batch = {} /\ env.fx_fallback = {}

\* exactly the FX lookup of currency c fails, whenever it is asked
OnlyFxFails(c) ==
    /\ ~env.batch_raises
    /\ env.batch_ok = Tickers
    /\ env.fx_metrics = {c}
    /\ env.fx_batch = {c} \cap {"USD"}
    /\ env.fx_fallback = {c} \cap {"USD"}

\* C4: when a single external lookup fails (the price of one ticker, the
\* rate of one currency) the valuation still returns, and every row that
\* does not depend on the failed lookup is valued as in the failure-free run.
C4_FailureIsolated ==
    /\ \A t \in Tickers :
         OnlyPriceFails(t)
         => /\ pc # "aborted"
            /\ Returned =>
                 \A i \in 1..Len(open_df) :
                    ~(df[i].date_sell = NaT /\ df[i].ticker = t)
                    => open_df[i] = valuePortfolio(df, FailureFree(env)).rows[i]
    /\ \A c \in {"USD", "PLN"} :
         OnlyFxFails(c)
         => /\ pc # "aborted"
            /\ Returned =>
                 \A i \in 1..Len(open_df) :
                    df[i].currency # c
                    => open_df[i] = valuePortfolio(df, FailureFree(env)).rows[i]

\* the price of the open row i was fetched neither by the batch call nor by
\* the per-ticker fallback
PriceFailedTwice(i) ==
    /\ df[i].date_sell = NaT
    /\ path = "fallback"
    /\ env.batch_raises \/ df[i].ticker \notin env.batch_ok
    /\ df[i].ticker \notin env.fb_ok

\* the frame without the row at position i
Without(rows, i) == SubSeq(rows, 1, i - 1) \o SubSeq(rows, i + 1, Len(rows))

Ids(rows) == { rows[k].id : k \in 1..Len(rows) }

\* C5: an open row whose price fetch failed in the batch call and in the
\* fallback leaves the resolver with date_sell null and earning unset, adds
\* to no (owner, date) sum of the aggregator and is no candidate of the
\* top-3 / bottom-3 selection.
C5_UnvaluedRowExcluded ==
    pc = "done"
    => \A i \in 1..Len(open_df) :
          PriceFailedTwice(i)
          => /\ open_df[i].date_sell = NaT
             /\ open_df[i].earning = NaN
             /\ daily = create_daily_cumulative(Without(chart_data, i))
             /\ open_df[i].id \notin Ids(closed_transactions)
             /\ open_df[i].id \notin Ids(top_3) \cup Ids(worst_3)

\* the open row i has received a live price in this call of api_current_price
LivePriced(i) ==
    /\ i \in open_mask
    /\ \/ ~env.batch_raises /\ open_df[i].ticker \in env.batch_ok
       \/ /\ path = "fallback"
          /\ pc \notin {"fallback"}
          /\ open_df[i].ticker \in env.fb_ok

\* an earning in the row's currency normalized to EUR with today's rate
NormalizedToday(row, raw) ==
    IF row.currency = "EUR" THEN round2(raw)
    ELSE div_round2(raw, FxTable(row.currency, Today))

\* C6 as stated: for an open row with a live price the resolver sets
\* total_sell = livePrice * quantity_buy and earning = total_sell - total_buy,
\* sets date_sell to today, normalizes the earning to EUR with today's rate
\* while date_sell is that date, and only then writes "OPEN"; on return
\* date_sell is "OPEN" and never the transient date.
C6_OrderExact ==
    \A i \in 1..Len(open_df) :
        LivePriced(i)
        => LET row == open_df[i]
               live == Price(row.ticker) * row.quantity_buy
           IN  /\ row.total_sell = live
               /\ pc \in {"batch_priced", "fb_priced"}
                    => row.earning = live - row.total_buy /\ row.date_sell = Today
               /\ pc \in {"batch_converted", "fb_converted"}
                    => /\ row.earning = NormalizedToday(row, live - row.total_buy)
                       /\ row.date_sell = Today
               /\ Returned
                    => /\ row.earning = NormalizedToday(row, live - row.total_buy)
                       /\ row.date_sell = OPEN

\* C6, amended: the same order of steps, the earning set in the first step
\* being round(total_sell - total_buy, 2); no row that was open on entry
\* returns with the transient date.
C6_Order ==
    /\ \A i \in 1..Len(open_df) :
         LivePriced(i)
         => LET row == open_df[i]
                live == Price(row.ticker) * row.quantity_buy
                raw == round2(live - row.total_buy)
            IN  /\ row.total_sell = live
                /\ pc \in {"batch_priced", "fb_priced"}
                     => row.earning = raw /\ row.date_sell = Today
                /\ pc \in {"batch_converted", "fb_converted"}
                     => row.earning = NormalizedToday(row, raw) /\ row.date_sell = Today
                /\ Returned
                     => row.earning = NormalizedToday(row, raw) /\ row.date_sell = OPEN
    /\ Returned => \A i \in open_mask : open_df[i].date_sell # Today

\* a non-EUR open row with a live price has been returned as "OPEN"
C6_Witness ==
    /\ pc = "resolved"
    /\ \E i \in 1..Len(open_df) :
         /\ LivePriced(i)
         /\ open_df[i].currency = "USD"
         /\ open_df[i].date_sell = OPEN
         /\ open_df[i].earning # round2(open_df[i].total_sell - open_df[i].total_buy)

\* ------------------------------------------- inputs of the pure functions
\* a valued transaction as the ranking and the aggregator read it
Valued(id, owner, stock, date_sell, earning) ==
    [Row(id, owner, stock, stock, "EUR", 0, 0, NaN, NaN, date_sell, 0)
       EXCEPT !.earning = earning]

\* all sequences of 1..max kinds: the rows of a frame, kind by kind
Frames(kinds, max) == UNION { [1..n -> kinds] : n \in 1..max }

Quiet ==
    /\ df = <<>>
    /\ env = NoEnv
    /\ open_mask = {}
    /\ path = "none"
    /\ fx_calls = {}
    /\ closed_transactions = <<>>
    /\ top_3 = <<>>
    /\ worst_3 = <<>>
    /\ top_labels = <<>>
    /\ worst_labels = <<>>
    /\ chart_data = <<>>
    /\ daily = <<>>
    /\ prev = [status |-> "none", rows |-> <<>>, input |-> <<>>]
    /\ fx_divisions = <<>>
    /\ StoreIdle

\* valued sets for the selection: earnings 1.00, 3.00 and 5.00, unvalued open rows
\* (null date_sell, NaN earning) and resolved open rows ("OPEN")
RankKinds == { <<1, 1000>>, <<1, 3000>>, <<1, 5000>>, <<NaT, NaN>>, <<OPEN, 5000>> }

RankRow(k, kind) == Valued(k, "A", "X", kind[1], kind[2])

InitRank ==
    /\ open_df \in { [k \in 1..Len(f) |-> RankRow(k, f[k])] : f \in Frames(RankKinds, MaxRank) }
    /\ df_with_metrics = <<>>
    /\ pc = "resolved"
    /\ owner_stats = <<>>
    /\ Quiet

SpecRank == InitRank /\ [][Rank]_vars

\* selected rows for the labels: two owners, stock names that may end in "(2)"
LabelKinds == { "A", "B" } \X { "X", "X(2)" } \X { 1000, 5000 }

LabelRow(k, kind) == Valued(k, kind[1], kind[2], 1, kind[3])

InitLabel ==
    /\ open_df \in { [k \in 1..Len(f) |-> LabelRow(k, f[k])] : f \in Frames(LabelKinds, MaxLabelRows) }
    /\ df_with_metrics = <<>>
    /\ pc = "resolved"
    /\ owner_stats = <<>>
    /\ Quiet

SpecLabel == InitLabel /\ [][Rank]_vars

\* chart inputs: closed rows of two owners on the dates 1..Today and resolved
\* open rows, which filtered_df still holds unvalued
AggKinds ==
    { <<"A", 1, 10000>>, <<"A", Today, -5000>>, <<"A", Today, 7000>>, <<"A", OPEN, 7000>>,
      <<"B", 2, 7000>>, <<"B", 1, -5000>>, <<"B", Today, 10000>>, <<"B", OPEN, -5000>> }

AggRow(k, kind) == Valued(k, kind[1], "X", kind[2], kind[3])

\* the row as it was before api_current_price resolved it
Unresolved(row) ==
    IF row.date_sell = OPEN THEN [row EXCEPT !.date_sell = NaT, !.earning = NaN]
    ELSE row

InitAgg ==
    /\ open_df \in { [k \in 1..Len(f) |-> AggRow(k, f[k])] : f \in Frames(AggKinds, MaxAgg) }
    /\ df_with_metrics = [k \in 1..Len(open_df) |-> Unresolved(open_df[k])]
    /\ pc = "ranked"
    /\ owner_stats = <<>>
    /\ Quiet

SpecAgg == InitAgg /\ [][Aggregate]_vars

\* frames as calculate_metrics returns them: closed rows of two owners with a
\* negative, a zero and a positive earning, and open rows (null date_sell,
\* earning not set)
StatsKinds ==
    { <<"A", 1, -5000>>, <<"A", 1, 0>>, <<"A", Today, 7000>>, <<"A", NaT, NaN>>,
      <<"B", 2, -5000>>, <<"B", 1, 7000>>, <<"B", NaT, NaN>> }

StatsRow(k, kind) == Valued(k, kind[1], "X", kind[2], kind[3])

InitStats ==
    /\ df_with_metrics \in { [k \in 1..Len(f) |-> StatsRow(k, f[k])] : f \in Frames(StatsKinds, MaxStats) }
    /\ open_df = <<>>
    /\ pc = "metrics"
    /\ owner_stats = <<>>
    /\ Quiet

SpecStats == InitStats /\ [][CalculateOwnerStats]_vars

Max(S) == CHOOSE m \in S : \A k \in S : m >= k

\* C7: in the output of create_daily_cumulative every owner's points are in
\* ascending date order, cumulative[i] = cumulative[i-1] + daily[i] within the
\* owner (cumulative[0] = daily[0]), the cumulative of the owner's last date
\* is the sum of all of that owner's earnings, and no other owner's earning
\* enters it.
C7_Cumulative ==
    pc = "done"
    => /\ \A i \in 1..Len(daily) :
            LET earlier == { j \in 1..(i - 1) : daily[j].owner = daily[i].owner }
            IN  /\ \A j \in earlier : daily[j].date_sell < daily[i].date_sell
                /\ daily[i].cumulative =
                     daily[i].earning
                     + (IF earlier = {} THEN 0 ELSE daily[Max(earlier)].cumulative)
       /\ \A o \in { daily[i].owner : i \in 1..Len(daily) } :
            LET points == { i \in 1..Len(daily) : daily[i].owner = o }
            IN  daily[Max(points)].cumulative =
                  SumEarning(chart_data, { k \in 1..Len(chart_data) :
                       chart_data[k].owner = o /\ chart_data[k].date_sell # NaT })

\* scenario E: A earns +10 on day 1 and -5 on day 3, B earns +7 on day 2
C7_Witness ==
    /\ pc = "done"
    /\ daily = << [owner |-> "A", date_sell |-> 1, earning |-> 10000, cumulative |-> 10000],
                  [owner |-> "A", date_sell |-> 3, earning |-> -5000, cumulative |-> 5000],
                  [owner |-> "B", date_sell |-> 2, earning |-> 7000, cumulative |-> 7000] >>

ValuedEarnings(rows) ==
    { rows[k].earning : k \in { j \in 1..Len(rows) : rows[j].earning # NaN } }

Selects(selection, earning) == \E k \in 1..Len(selection) : selection[k].earning = earning

\* both selections hold a row with the global maximum and a row with the
\* global minimum earning of the closed set
BothSelectMaxAndMin ==
    LET earnings == ValuedEarnings(closed_transactions)
    IN  /\ earnings # {}
        /\ Selects(top_3, Max(earnings)) /\ Selects(top_3, Min(earnings))
        /\ Selects(worst_3, Max(earnings)) /\ Selects(worst_3, Min(earnings))

\* every row of the set is a closed transaction: a real date_sell and an earning
AllClosed(rows) ==
    \A k \in 1..Len(rows) : rows[k].date_sell \in 1..Today /\ rows[k].earning # NaN

\* C9 as stated: over a closed set of more than one row, top-3 and bottom-3
\* never both select a row with the global maximum earning and a row with
\* the global minimum earning.
C9_NeverBothExtremes ==
    (/\ pc = "ranked"
     /\ Len(closed_transactions) > 1
     /\ AllClosed(closed_transactions))
    => ~BothSelectMaxAndMin

\* the rows of the closed set whose earning is set
ValuedCount(rows) == Cardinality({ j \in 1..Len(rows) : rows[j].earning # NaN })

\* C9, amended: over a closed set with at least 2 * 3 - 1 = 5 valued rows
\* whose earnings are not all equal, top-3 and bottom-3 never both select a
\* row with the global maximum and a row with the global minimum earning.
C9_NeverBothExtremesLarge ==
    (/\ pc = "ranked"
     /\ ValuedCount(closed_transactions) >= 2 * N - 1
     /\ Cardinality(ValuedEarnings(closed_transactions)) > 1)
    => ~BothSelectMaxAndMin

\* five valued rows, one of them the maximum: the top-3 selection also holds
\* a minimum row, the bottom-3 selection holds no maximum row
C9_Witness ==
    /\ pc = "ranked"
    /\ ValuedCount(closed_transactions) >= 2 * N - 1
    /\ Cardinality(ValuedEarnings(closed_transactions)) > 1
    /\ Selects(top_3, Min(ValuedEarnings(closed_transactions)))
    /\ ~Selects(worst_3, Max(ValuedEarnings(closed_transactions)))

\* the number of rows up to k that have the base label of row k
Occurrence(selection, k) ==
    Cardinality({ j \in 1..k : selection[j].label = selection[k].label })

\* one label per row, in row order, the k-th occurrence (k >= 2) of a base
\* label suffixed "(k)", and the labels pairwise distinct
UniqueLabels(selection, labels) ==
    /\ Len(labels) = Len(selection)
    /\ \A k \in 1..Len(selection) :
         labels[k] = IF Occurrence(selection, k) = 1 THEN selection[k].label
                     ELSE selection[k].label \o "("
                            \o ToString(Occurrence(selection, k)) \o ")"
    /\ \A j, k \in 1..Len(labels) : j # k => labels[j] # labels[k]

\* C10: create_unique_labels returns one label per selected row, in row
\* order, the k-th occurrence of a base label "{owner} - {stock}" suffixed
\* "(k)", and no two rows get the same label.
C10_LabelsDistinct ==
    pc = "ranked" => UniqueLabels(top_3, top_labels) /\ UniqueLabels(worst_3, worst_labels)

\* the rows of an owner whose date_sell is a real date
RealDateRows(rows, owner) ==
    { i \in 1..Len(rows) : rows[i].owner = owner /\ rows[i].date_sell \in 1..Today }

\* C11: for every owner calculate_owner_stats counts as closed exactly the
\* rows whose date_sell is a real date and as open all other rows of the
\* owner; total_transactions and open_positions are the two counts,
\* total_earnings / best_trade / worst_trade the sum / max / min of the closed
\* earnings (0 without a closed row), win_rate is 100 * count(closed earning
\* > 0) / total_transactions (to the thousandth of a percent), 0 without a
\* closed row.
C11_OwnerStats ==
    pc = "stats"
    => /\ DOMAIN owner_stats = OwnersOf(df_with_metrics)
       /\ \A o \in OwnersOf(df_with_metrics) :
            LET closed == RealDateRows(df_with_metrics, o)
                others == { i \in 1..Len(df_with_metrics) :
                              df_with_metrics[i].owner = o /\ i \notin closed }
                earnings == { df_with_metrics[i].earning : i \in closed }
                wins == Cardinality({ i \in closed : df_with_metrics[i].earning > 0 })
                st == owner_stats[o]
                gap == st.win_rate * Cardinality(closed) - 100000 * wins
            IN  /\ st.total_transactions = Cardinality(closed)
                /\ st.open_positions = Cardinality(others)
                /\ st.total_earnings = SumEarning(df_with_metrics, closed)
                /\ st.best_trade = (IF closed = {} THEN 0 ELSE Max(earnings))
                /\ st.worst_trade = (IF closed = {} THEN 0 ELSE Min(earnings))
                /\ closed = {} => st.win_rate = 0
                /\ 2 * gap <= Cardinality(closed) /\ -2 * gap <= Cardinality(closed)

\* owner A has a winning and a losing closed trade and an open position,
\* owner B has open positions only
C11_Witness ==
    /\ pc = "stats"
    /\ DOMAIN owner_stats = {"A", "B"}
    /\ owner_stats["A"] = [total_earnings |-> 2000, total_transactions |-> 2,
                           open_positions |-> 1, win_rate |-> 50000,
                           best_trade |-> 7000, worst_trade |-> -5000]
    /\ owner_stats["B"].total_transactions = 0
    /\ owner_stats["B"].open_positions = 1

Writes == {"new", "close", "add", "delete"}

\* C12: after a write to the transaction store (insert, close, additional
\* purchase, delete) or a manual refresh every derived cache is empty, and
\* each script run after it shows the table as it is now and the valuation,
\* owner stats and current prices computed from it.
C12_NoStaleValuation ==
    /\ last_op.name \in Writes \cup {"refresh"} => cache = NoCache
    /\ last_op.name = "run"
         => /\ df = store
            /\ pc = "done"
                 => /\ df_with_metrics =
                         calculate_metrics(store, env.include_dividends, {}).rows
                    /\ owner_stats = calculate_owner_stats(df_with_metrics)
                    /\ open_df = api_current_price(df_with_metrics, NoEnv).rows

\* a script run right after a form has written to the table
C12_Witness ==
    /\ last_op.name = "run"
    /\ last_op.after \in Writes
    /\ store \notin InitStores
    /\ pc = "done"
    /\ df = store

\* C13: every cached derived result is time-boxed: a script run returns no
\* valued transactions, owner stats or resolved open positions that were
\* computed 600 seconds or more before the run.
C13_TimeBoxed ==
    last_op.name = "run"
    => /\ served.now - served.df_with_metrics < ttl_get_current_prices
       /\ served.now - served.owner_stats < ttl_get_current_prices
       /\ served.now - served.open_df < ttl_get_current_prices

\* all three sell fields are null, or all three are populated
Whole(row) ==
    \/ row.price_sell = NaN /\ row.quantity_sell = NaN /\ row.date_sell = NaT
    \/ row.price_sell # NaN /\ row.quantity_sell # NaN /\ row.date_sell \in 1..Today

\* C14: every stored transaction is closed (price_sell, quantity_sell and
\* date_sell populated) or open (all three null), and close_stock gives the
\* open rows of the position all three sell fields at once and touches no
\* other row.
C14_NoPartialState ==
    /\ \A i \in 1..Len(store) : Whole(store[i])
    /\ (last_op.name = "close" /\ last_op.written)
         => /\ Len(store) = Len(df)
            /\ \A i \in 1..Len(df) :
                 IF df[i].owner = last_op.owner /\ df[i].stock = last_op.stock
                    /\ df[i].date_sell = NaT
                 THEN /\ store[i].id = df[i].id
                      /\ store[i].price_sell = last_op.price
                      /\ store[i].quantity_sell = last_op.quantity
                      /\ store[i].date_sell = Today
                 ELSE store[i] = df[i]

\* close_stock has closed an open position and left another row alone
C14_Witness ==
    /\ last_op.name = "close"
    /\ last_op.written
    /\ \E i, j \in 1..Len(store) :
         /\ df[i].date_sell = NaT /\ store[i].date_sell = Today
         /\ store[i].price_sell = 12000 /\ store[i].quantity_sell = 3
         /\ df[j].date_sell = NaT /\ store[j] = df[j]

\* row is the outcome of add_etf on old, with the average price within
\* slack / 2 thousandths of the exact quotient
Averaged(old, row, new_price, new_qty, slack) ==
    LET quantity == old.quantity_buy + new_qty
        cost == old.price_buy * old.quantity_buy + new_price * new_qty
    IN  /\ row = [old EXCEPT !.price_buy = row.price_buy, !.quantity_buy = quantity]
        /\ 2 * (row.price_buy * quantity - cost) <= slack
        /\ 2 * (cost - row.price_buy * quantity) <= slack

\* the rows of the table after add_etf, against the frame loaded before it
AddOutcome(exact) ==
    (last_op.name = "add" /\ last_op.written)
    => /\ Len(store) = Len(df)
       /\ \A i \in 1..Len(df) :
            IF OpenPosition(df[i], last_op.owner, last_op.stock)
            THEN Averaged(df[i], store[i], last_op.price, last_op.quantity,
                          IF exact THEN 0 ELSE df[i].quantity_buy + last_op.quantity)
            ELSE store[i] = df[i]

C16_ConvertedOnce ==
    Returned
    => \A i \in 1..Len(open_df) :
          open_df[i].earning # NaN
          => fx_divisions[i] = (IF open_df[i].currency = "EUR" THEN 0 ELSE 1)

====
